---- MODULE Spec2Model ----
(***************************************************************************)
(* Model of bin/convert-bigint-ids.py: the recursive field converter       *)
(* convert_to_bigint and the file driver process_file.                     *)
(*                                                                         *)
(* A decoded JSON value is a record [t, n, s, c]:                          *)
(*   t  the Python type: "null" "bool" "int" "float" "str" "list" "dict"   *)
(*   n  the number (bool: 0/1, int: the value, float: the value in tenths) *)
(*   s  the characters of a str, one per element                           *)
(*   c  the elements of a list, or the entries [k, v] of a dict in         *)
(*      insertion order (k is the key's characters)                        *)
(* Every value carries all four fields so that any two values compare.     *)
(***************************************************************************)
EXTENDS Integers, Sequences, FiniteSets, TLC

VARIABLES
    data,        \* the value handed to convert_to_bigint, as it was before the call
    result,      \* the value convert_to_bigint returned (converted_data)
    again,       \* convert_to_bigint(result), for the second call of the converter run
    calls,       \* calls of convert_to_bigint made so far
    input_file,  \* process_file's input path
    infile,      \* the input's lines, each a sequence of JSON tokens
    pos,         \* lines the line iterator has consumed
    outfile,     \* the tokens written so far, "\n" among them
    stdout,      \* the diagnostics printed
    pc,          \* "loop" | "done" (fell out of the with block) | "returned" (line 61)
    seeks,       \* infile.seek(0) calls
    loads        \* json.load(infile) calls

fileVars == <<input_file, infile, pos, outfile, stdout, pc, seeks, loads>>
vars == <<data, result, again, calls, input_file, infile, pos, outfile, stdout, pc, seeks, loads>>

\* ---------------------------------------------------------------- bounds
MaxDepth == 2
MaxWidth == 2
MaxLines == 3

\* ---------------------------------------------------------------- values
Null == [t |-> "null", n |-> 0, s |-> <<>>, c |-> <<>>]
Bool(b) == [t |-> "bool", n |-> b, s |-> <<>>, c |-> <<>>]
PInt(i) == [t |-> "int", n |-> i, s |-> <<>>, c |-> <<>>]
PFloat(tenths) == [t |-> "float", n |-> tenths, s |-> <<>>, c |-> <<>>]
Str(chars) == [t |-> "str", n |-> 0, s |-> chars, c |-> <<>>]
List(elems) == [t |-> "list", n |-> 0, s |-> <<>>, c |-> elems]
Dict(entries) == [t |-> "dict", n |-> 0, s |-> <<>>, c |-> entries]
Entry(key, value) == [k |-> key, v |-> value]

K_id == <<"i", "d">>
K_start == <<"s", "t", "a", "r", "t">>
K_end == <<"e", "n", "d">>
K_x == <<"x">>
K_Id == <<"I", "d">>

\* ------------------------------------------------------ convert_to_bigint
DigitChars == <<"0", "1", "2", "3", "4", "5", "6", "7", "8", "9">>

\* \d on the characters the model uses (ASCII decimal digits)
IsDigit(ch) == \E i \in 1..10 : DigitChars[i] = ch

DigitVal(ch) == (CHOOSE i \in 1..10 : DigitChars[i] = ch) - 1

\* what str.strip() removes
IsSpace(ch) == ch \in {" ", "\n", "\t", "\r"}

\* key in ("id", "start", "end")
IsTargetKey(key) == key \in {K_id, K_start, K_end}

\* a pattern that also refuses a leading zero, ^[1-9]\d*$
ReMatchDigits_nolead(chars) ==
    /\ Len(chars) >= 1
    /\ \A i \in 1..Len(chars) : IsDigit(chars[i])
    /\ chars[1] # "0"

\* re.match(r'^\d+$', value): one or more digits from the start, then the end
\* of the string; Python's $ also matches just before a final newline.
ReMatchDigits(chars) ==
    \E m \in 1..Len(chars) :
        /\ \A i \in 1..m : IsDigit(chars[i])
        /\ \/ m = Len(chars)
           \/ m = Len(chars) - 1 /\ chars[Len(chars)] = "\n"

\* isinstance(value, (int, float)) or (isinstance(value, str) and re.match(...));
\* bool is a subclass of int in Python, so True and False pass the first test.
IsEligible(value) ==
    \/ value.t \in {"bool", "int", "float"}
    \/ value.t = "str" /\ ReMatchDigits(value.s)

RECURSIVE LStrip(_)
LStrip(chars) ==
    IF chars # <<>> /\ IsSpace(Head(chars)) THEN LStrip(Tail(chars)) ELSE chars

RECURSIVE RStrip(_)
RStrip(chars) ==
    IF chars # <<>> /\ IsSpace(chars[Len(chars)])
    THEN RStrip(SubSeq(chars, 1, Len(chars) - 1))
    ELSE chars

\* the base-10 accumulation of int(str) over a run of digits
RECURSIVE DecimalValue(_)
DecimalValue(chars) ==
    IF chars = <<>> THEN 0
    ELSE DecimalValue(SubSeq(chars, 1, Len(chars) - 1)) * 10
           + DigitVal(chars[Len(chars)])

\* a conversion that rescales numbers (int(value * 10)) instead of truncating
PyInt_scaled(value) ==
    IF value.t = "str" THEN PInt(DecimalValue(RStrip(LStrip(value.s))))
    ELSE IF value.t = "float" THEN PInt(value.n)
    ELSE PInt(value.n * 10)

\* int(value): a bool gives 0/1, an int itself, a float truncates toward zero,
\* a str is stripped of surrounding whitespace and read in base 10.
PyInt(value) ==
    IF value.t = "str" THEN PInt(DecimalValue(RStrip(LStrip(value.s))))
    ELSE IF value.t = "float"
         THEN PInt(IF value.n >= 0 THEN value.n \div 10 ELSE -((-value.n) \div 10))
         ELSE PInt(value.n)

RECURSIVE convert_to_bigint(_)
\* a converter that stores a non-eligible dict value back without descending
\* into it
convert_to_bigint_flat(d) ==
    IF d.t = "dict"
    THEN [d EXCEPT !.c = [i \in 1..Len(d.c) |->
             IF IsTargetKey(d.c[i].k) /\ IsEligible(d.c[i].v)
             THEN Entry(d.c[i].k, PyInt(d.c[i].v))
             ELSE d.c[i]]]
    ELSE IF d.t = "list"
         THEN [d EXCEPT !.c = [i \in 1..Len(d.c) |-> convert_to_bigint(d.c[i])]]
         ELSE d

\* Each pass of the loops writes only the slot it reads, so the in-place
\* update is the entry-wise (element-wise) map.
convert_to_bigint(d) ==
    IF d.t = "dict"
    THEN [d EXCEPT !.c = [i \in 1..Len(d.c) |->
             IF IsTargetKey(d.c[i].k) /\ IsEligible(d.c[i].v)
             THEN Entry(d.c[i].k, PyInt(d.c[i].v))
             ELSE Entry(d.c[i].k, convert_to_bigint(d.c[i].v))]]
    ELSE IF d.t = "list"
         THEN [d EXCEPT !.c = [i \in 1..Len(d.c) |-> convert_to_bigint(d.c[i])]]
         ELSE d

\* ------------------------------------------------- inputs of the converter
StrSamples ==
    { <<>>, <<"7">>, <<"0", "0", "7">>, <<"4", "2">>, <<"-", "5">>,
      <<"5", ".", "0">>, <<"1", "2", "a">>, <<"5", "\n">>, <<" ", "5">>,
      <<"5", " ">>, <<"\n", "5">> }

Leaves ==
    {Null, Bool(0), Bool(1), PInt(5), PFloat(37), PFloat(-25)}
        \cup {Str(s) : s \in StrSamples}

WideLeaves ==
    {Null, PFloat(37), Str(<<"0", "0", "7">>), Str(<<"5", "\n">>), Str(<<"1", "2", "a">>)}

WideKeys == {K_id, K_end, K_x}
WrapKeys == {K_start, K_x, K_Id}

\* the sequences of length 0..len over S
RECURSIVE SeqsUpTo(_, _)
SeqsUpTo(S, len) ==
    IF len = 0 THEN {<<>>}
    ELSE LET shorter == SeqsUpTo(S, len - 1)
         IN  shorter \cup {Append(q, x) : q \in shorter, x \in S}

\* a dict holds each key once
DistinctKeys(entries) ==
    \A i, j \in 1..Len(entries) : entries[i].k = entries[j].k => i = j

WideValues ==
    {List(q) : q \in SeqsUpTo(WideLeaves, MaxWidth)}
        \cup {Dict(q) : q \in {e \in SeqsUpTo({Entry(k, v) : k \in WideKeys, v \in WideLeaves}, MaxWidth) :
                                 DistinctKeys(e)}}

RECURSIVE ValuesAt(_)
ValuesAt(depth) ==
    IF depth <= 1 THEN Leaves \cup WideValues
    ELSE LET inner == ValuesAt(depth - 1)
         IN  inner \cup {List(<<v>>) : v \in inner}
                    \cup {Dict(<<Entry(k, v)>>) : k \in WrapKeys, v \in inner}

Values == ValuesAt(MaxDepth)

\* ---------------------------------------------------------- the converter run
FileIdle ==
    /\ input_file = ""
    /\ infile = <<>>
    /\ pos = 0
    /\ outfile = <<>>
    /\ stdout = <<>>
    /\ pc = "idle"
    /\ seeks = 0
    /\ loads = 0

InitConvert ==
    /\ data \in Values
    /\ result = Null
    /\ again = Null
    /\ calls = 0
    /\ FileIdle

\* converted = convert_to_bigint(data)
Convert ==
    /\ calls = 0
    /\ result' = convert_to_bigint(data)
    /\ calls' = 1
    /\ UNCHANGED <<data, again>>
    /\ UNCHANGED fileVars

\* convert_to_bigint applied to its own result
Reconvert ==
    /\ calls = 1
    /\ again' = convert_to_bigint(result)
    /\ calls' = 2
    /\ UNCHANGED <<data, result>>
    /\ UNCHANGED fileVars

NextConvert == Convert \/ Reconvert

SpecConvert == InitConvert /\ [][NextConvert]_vars

\* ------------------------------------------------------- JSON text as tokens
\* No JSON token spans a line, so a line of text is its sequence of tokens and a
\* whitespace-only line is the empty sequence.  A literal token carries the
\* scalar it denotes.
Punct(kind) == [k |-> kind, v |-> Null]
Lit(value) == [k |-> "lit", v |-> value]
NL == Punct("\n")

ParseFail == [ok |-> FALSE, val |-> Null, next |-> 0]
ParseOk(value, next) == [ok |-> TRUE, val |-> value, next |-> next]

\* a dict keeps one entry per key: a repeated key overwrites the value in place
DictPut(entries, key, value) ==
    IF \E i \in 1..Len(entries) : entries[i].k = key
    THEN [i \in 1..Len(entries) |->
             IF entries[i].k = key THEN Entry(key, value) ELSE entries[i]]
    ELSE Append(entries, Entry(key, value))

RECURSIVE ParseValue(_, _)
RECURSIVE ParseElements(_, _, _)
RECURSIVE ParseMembers(_, _, _)

\* the decoder on the value that starts at token i
ParseValue(toks, i) ==
    IF i > Len(toks) THEN ParseFail
    ELSE IF toks[i].k = "lit" THEN ParseOk(toks[i].v, i + 1)
    ELSE IF toks[i].k = "["
         THEN IF i + 1 <= Len(toks) /\ toks[i + 1].k = "]"
              THEN ParseOk(List(<<>>), i + 2)
              ELSE ParseElements(toks, i + 1, <<>>)
    ELSE IF toks[i].k = "{"
         THEN IF i + 1 <= Len(toks) /\ toks[i + 1].k = "}"
              THEN ParseOk(Dict(<<>>), i + 2)
              ELSE ParseMembers(toks, i + 1, <<>>)
    ELSE ParseFail

ParseElements(toks, i, acc) ==
    LET r == ParseValue(toks, i)
    IN  IF ~r.ok \/ r.next > Len(toks) THEN ParseFail
        ELSE IF toks[r.next].k = ","
             THEN ParseElements(toks, r.next + 1, Append(acc, r.val))
        ELSE IF toks[r.next].k = "]"
             THEN ParseOk(List(Append(acc, r.val)), r.next + 1)
        ELSE ParseFail

ParseMembers(toks, i, acc) ==
    IF \/ i + 1 > Len(toks)
       \/ toks[i].k # "lit"
       \/ toks[i].v.t # "str"
       \/ toks[i + 1].k # ":"
    THEN ParseFail
    ELSE LET r == ParseValue(toks, i + 2)
         IN  IF ~r.ok \/ r.next > Len(toks) THEN ParseFail
             ELSE IF toks[r.next].k = ","
                  THEN ParseMembers(toks, r.next + 1, DictPut(acc, toks[i].v.s, r.val))
             ELSE IF toks[r.next].k = "}"
                  THEN ParseOk(Dict(DictPut(acc, toks[i].v.s, r.val)), r.next + 1)
             ELSE ParseFail

\* json.loads(text): one value and nothing after it, else JSONDecodeError
json_loads(toks) ==
    LET r == ParseValue(toks, 1)
    IN  IF r.ok /\ r.next = Len(toks) + 1 THEN r ELSE ParseFail

\* the whole stream, as read() returns it after seek(0)
RECURSIVE ReadAll(_)
ReadAll(lines) ==
    IF lines = <<>> THEN <<>> ELSE Head(lines) \o ReadAll(Tail(lines))

\* json.load(infile) with the stream at its start
json_load(lines) == json_loads(ReadAll(lines))

\* json.dumps(value)
RECURSIVE json_dumps(_)
RECURSIVE DumpItems(_, _, _)
DumpItems(items, i, isDict) ==
    IF i > Len(items) THEN <<>>
    ELSE (IF i > 1 THEN <<Punct(",")>> ELSE <<>>)
         \o (IF isDict
             THEN <<Lit(Str(items[i].k)), Punct(":")>> \o json_dumps(items[i].v)
             ELSE json_dumps(items[i]))
         \o DumpItems(items, i + 1, isDict)

json_dumps(value) ==
    IF value.t = "list" THEN <<Punct("[")>> \o DumpItems(value.c, 1, FALSE) \o <<Punct("]")>>
    ELSE IF value.t = "dict" THEN <<Punct("{")>> \o DumpItems(value.c, 1, TRUE) \o <<Punct("}")>>
    ELSE <<Lit(value)>>

\* ------------------------------------------------------- inputs of the driver
LineBlank == <<>>
LineOpen == <<Punct("{")>>
LineClose == <<Punct("}")>>
LineMember == <<Lit(Str(K_id)), Punct(":"), Lit(Str(<<"4", "2">>))>>
LineRow1 ==
    <<Punct("{"), Lit(Str(K_id)), Punct(":"), Lit(Str(<<"1">>)), Punct(","),
      Lit(Str(K_x)), Punct(":"), Lit(Str(<<"a">>)), Punct("}")>>
LineRow2 ==
    <<Punct("{"), Lit(Str(K_id)), Punct(":"), Lit(Str(<<"2">>)), Punct(","),
      Lit(Str(K_x)), Punct(":"), Lit(Str(<<"b">>)), Punct("}")>>
LineNumber == <<Lit(PInt(1))>>
LineArrayOpen == <<Punct("["), Lit(PInt(1)), Punct(",")>>
LineArrayClose == <<Lit(Str(<<"7">>)), Punct("]")>>
LineGarbage == <<Punct(","), Lit(Null)>>

Lines ==
    {LineBlank, LineOpen, LineClose, LineMember, LineRow1, LineRow2,
     LineNumber, LineArrayOpen, LineArrayClose, LineGarbage}

Files == SeqsUpTo(Lines, MaxLines)

Paths == {"data.json", "rows.jsonl"}

\* ------------------------------------------------------------- process_file
Init ==
    /\ input_file \in Paths
    /\ infile \in Files
    /\ pos = 0
    /\ outfile = <<>>
    /\ stdout = <<>>
    /\ pc = "loop"
    /\ seeks = 0
    /\ loads = 0
    /\ data = Null
    /\ result = Null
    /\ again = Null
    /\ calls = 0

\* a record written without its "\n"
JsonlRecord_nonl ==
    /\ pc = "loop"
    /\ pos < Len(infile)
    /\ json_loads(infile[pos + 1]).ok
    /\ pos' = pos + 1
    /\ data' = json_loads(infile[pos + 1]).val
    /\ result' = convert_to_bigint(data')
    /\ calls' = calls + 1
    /\ outfile' = outfile \o json_dumps(result')
    /\ UNCHANGED <<again, input_file, infile, stdout, pc, seeks, loads>>

\* lines 45-50: the next line decodes; its converted value is written with "\n"
JsonlRecord ==
    /\ pc = "loop"
    /\ pos < Len(infile)
    /\ json_loads(infile[pos + 1]).ok
    /\ pos' = pos + 1
    /\ data' = json_loads(infile[pos + 1]).val
    /\ result' = convert_to_bigint(data')
    /\ calls' = calls + 1
    /\ outfile' = outfile \o json_dumps(result') \o <<NL>>
    /\ UNCHANGED <<again, input_file, infile, stdout, pc, seeks, loads>>

\* a fallback without the break of line 58: the loop goes on with the next line
FallbackDocument_continue ==
    /\ pc = "loop"
    /\ pos < Len(infile)
    /\ ~json_loads(infile[pos + 1]).ok
    /\ json_load(infile).ok
    /\ seeks' = seeks + 1
    /\ loads' = loads + 1
    /\ pos' = pos + 1
    /\ data' = json_load(infile).val
    /\ result' = convert_to_bigint(data')
    /\ calls' = calls + 1
    /\ outfile' = outfile \o json_dumps(result')
    /\ UNCHANGED <<again, input_file, infile, stdout, pc>>

\* lines 51-58: the line does not decode; the stream is rewound and decodes as
\* one document, which is converted and written without "\n"; break
FallbackDocument ==
    /\ pc = "loop"
    /\ pos < Len(infile)
    /\ ~json_loads(infile[pos + 1]).ok
    /\ json_load(infile).ok
    /\ seeks' = seeks + 1
    /\ loads' = loads + 1
    /\ pos' = Len(infile)
    /\ data' = json_load(infile).val
    /\ result' = convert_to_bigint(data')
    /\ calls' = calls + 1
    /\ outfile' = outfile \o json_dumps(result')
    /\ pc' = "done"
    /\ UNCHANGED <<again, input_file, infile, stdout>>

\* a failed fallback that returns without printing
FallbackError_quiet ==
    /\ pc = "loop"
    /\ pos < Len(infile)
    /\ ~json_loads(infile[pos + 1]).ok
    /\ ~json_load(infile).ok
    /\ seeks' = seeks + 1
    /\ loads' = loads + 1
    /\ pos' = Len(infile)
    /\ pc' = "returned"
    /\ UNCHANGED <<data, result, again, calls, input_file, infile, outfile, stdout>>

\* lines 51-55, 59-61: the line does not decode and neither does the rewound
\* stream; the diagnostic is printed and process_file returns.  Both handlers
\* catch json.JSONDecodeError, so no decode failure leaves process_file.
FallbackError ==
    /\ pc = "loop"
    /\ pos < Len(infile)
    /\ ~json_loads(infile[pos + 1]).ok
    /\ ~json_load(infile).ok
    /\ seeks' = seeks + 1
    /\ loads' = loads + 1
    /\ pos' = Len(infile)
    /\ stdout' = Append(stdout, <<"Error: Invalid JSON format in file ", input_file>>)
    /\ pc' = "returned"
    /\ UNCHANGED <<data, result, again, calls, input_file, infile, outfile>>

\* line 45: the iterator is exhausted; the with block closes both files
EndOfInput ==
    /\ pc = "loop"
    /\ pos = Len(infile)
    /\ pc' = "done"
    /\ UNCHANGED <<data, result, again, calls, input_file, infile, pos, outfile, stdout, seeks, loads>>

Next == JsonlRecord \/ FallbackDocument \/ FallbackError \/ EndOfInput

Spec == Init /\ [][Next]_vars

\* ------------------------------------------ properties of convert_to_bigint
\* a string composed entirely of decimal digits, one or more
IsDigitString(chars) ==
    Len(chars) >= 1 /\ \A i \in 1..Len(chars) : IsDigit(chars[i])

RECURSIVE Pow10(_)
Pow10(e) == IF e = 0 THEN 1 ELSE 10 * Pow10(e - 1)

\* the number a decimal numeral denotes: the sum of digit * 10^place
RECURSIVE NumeralValue(_, _)
NumeralValue(chars, i) ==
    IF i > Len(chars) THEN 0
    ELSE DigitVal(chars[i]) * Pow10(Len(chars) - i) + NumeralValue(chars, i + 1)

\* some id/start/end entry, at any depth, holds a number or a digit-only string
RECURSIVE HasNumericTarget(_)
HasNumericTarget(v) ==
    IF v.t = "dict"
    THEN \E i \in 1..Len(v.c) :
            \/ /\ IsTargetKey(v.c[i].k)
               /\ \/ v.c[i].v.t \in {"int", "float"}
                  \/ v.c[i].v.t = "str" /\ IsDigitString(v.c[i].v.s)
            \/ HasNumericTarget(v.c[i].v)
    ELSE IF v.t = "list"
         THEN \E i \in 1..Len(v.c) : HasNumericTarget(v.c[i])
         ELSE FALSE

\* C1: a value in which no id/start/end entry holds a number or a digit-only
\* string (a target may hold a boolean, null, a non-digit string or a
\* container) comes back from convert_to_bigint structurally equal.
C1_UnchangedWithoutNumericTarget ==
    (calls >= 1 /\ ~HasNumericTarget(data)) => result = data

\* every id/start/end entry of orig holding a digit string holds, in conv, the
\* integer the numeral denotes
RECURSIVE DigitTargetsConverted(_, _)
DigitTargetsConverted(orig, conv) ==
    IF orig.t \in {"dict", "list"}
    THEN /\ conv.t = orig.t
         /\ Len(conv.c) = Len(orig.c)
         /\ \A i \in 1..Len(orig.c) :
               IF orig.t = "list" THEN DigitTargetsConverted(orig.c[i], conv.c[i])
               ELSE IF /\ IsTargetKey(orig.c[i].k)
                       /\ orig.c[i].v.t = "str"
                       /\ IsDigitString(orig.c[i].v.s)
                    THEN /\ conv.c[i].k = orig.c[i].k
                         /\ conv.c[i].v = PInt(NumeralValue(orig.c[i].v.s, 1))
                    ELSE IF IsTargetKey(orig.c[i].k) /\ orig.c[i].v.t \notin {"dict", "list"}
                         THEN TRUE
                         ELSE DigitTargetsConverted(orig.c[i].v, conv.c[i].v)
    ELSE TRUE

\* C2: an id/start/end entry whose value is a string of one or more decimal
\* digits is replaced by the integer with that decimal value; leading zeros
\* are dropped ("007" becomes 7).
C2_DigitStringsBecomeIntegers ==
    calls >= 1 => DigitTargetsConverted(data, result)

C2_Witness ==
    /\ calls >= 1
    /\ data = Dict(<<Entry(K_id, Str(<<"0", "0", "7">>)), Entry(K_x, Str(<<"0", "0", "7">>))>>)
    /\ result = Dict(<<Entry(K_id, PInt(7)), Entry(K_x, Str(<<"0", "0", "7">>))>>)

\* every id/start/end entry of orig holding a string that is not all digits
\* holds the same string in conv
RECURSIVE NonDigitTargetsKept(_, _)
NonDigitTargetsKept(orig, conv) ==
    IF orig.t \in {"dict", "list"}
    THEN /\ conv.t = orig.t
         /\ Len(conv.c) = Len(orig.c)
         /\ \A i \in 1..Len(orig.c) :
               IF orig.t = "list" THEN NonDigitTargetsKept(orig.c[i], conv.c[i])
               ELSE IF /\ IsTargetKey(orig.c[i].k)
                       /\ orig.c[i].v.t = "str"
                       /\ ~IsDigitString(orig.c[i].v.s)
                    THEN conv.c[i] = orig.c[i]
                    ELSE IF IsTargetKey(orig.c[i].k) /\ orig.c[i].v.t \notin {"dict", "list"}
                         THEN TRUE
                         ELSE NonDigitTargetsKept(orig.c[i].v, conv.c[i].v)
    ELSE TRUE

\* C3: an id/start/end entry whose value is a string not composed entirely of
\* decimal digits (a sign, a point, a letter, leading or trailing whitespace
\* such as a trailing newline, or empty) keeps the original string.
C3_NonDigitStringsKept ==
    calls >= 1 => NonDigitTargetsKept(data, result)

\* C8: convert_to_bigint is idempotent: converting the converted value again
\* gives the converted value.
C8_Idempotent ==
    calls = 2 => again = result

C8_Witness ==
    /\ calls = 2
    /\ data = Dict(<<Entry(K_start, Dict(<<Entry(K_id, PFloat(37)), Entry(K_end, Str(<<"0", "0", "7">>))>>))>>)
    /\ result # data
    /\ again = result

\* conv has orig's shape: same containers, same lengths, same keys in the same
\* order, every scalar outside a target entry unchanged and in place, and every
\* number or digit string under id/start/end replaced by an integer
RECURSIVE ShapeKept(_, _)
ShapeKept(orig, conv) ==
    IF orig.t = "list"
    THEN /\ conv.t = "list"
         /\ Len(conv.c) = Len(orig.c)
         /\ \A i \in 1..Len(orig.c) : ShapeKept(orig.c[i], conv.c[i])
    ELSE IF orig.t = "dict"
    THEN /\ conv.t = "dict"
         /\ Len(conv.c) = Len(orig.c)
         /\ \A i \in 1..Len(orig.c) :
               /\ conv.c[i].k = orig.c[i].k
               /\ IF IsTargetKey(orig.c[i].k) /\ orig.c[i].v.t \notin {"dict", "list"}
                  THEN (\/ orig.c[i].v.t \in {"int", "float"}
                        \/ orig.c[i].v.t = "str" /\ IsDigitString(orig.c[i].v.s))
                       => conv.c[i].v.t = "int"
                  ELSE ShapeKept(orig.c[i].v, conv.c[i].v)
    ELSE conv = orig

\* C9: target fields are reached at every nesting depth (also inside a
\* container stored under a target key): every eligible id/start/end value is
\* converted, every array keeps its length and element order, every object its
\* key set and key order.
C9_NestingPreserved ==
    calls >= 1 => ShapeKept(data, result)

C9_Witness ==
    /\ calls >= 1
    /\ data = Dict(<<Entry(K_start, Dict(<<Entry(K_x, Str(<<"1", "2", "a">>)),
                                          Entry(K_id, Str(<<"0", "0", "7">>))>>))>>)
    /\ result = Dict(<<Entry(K_start, Dict(<<Entry(K_x, Str(<<"1", "2", "a">>)),
                                            Entry(K_id, PInt(7))>>))>>)

\* ------------------------------------------------ properties of process_file
Decodes(line) == json_loads(line).ok

\* the output cut at its newlines: the newline-terminated records, and what
\* follows the last newline
RECURSIVE Cut(_, _, _)
Cut(toks, cur, recs) ==
    IF toks = <<>> THEN [recs |-> recs, rest |-> cur]
    ELSE IF Head(toks) = NL THEN Cut(Tail(toks), <<>>, Append(recs, cur))
    ELSE Cut(Tail(toks), Append(cur, Head(toks)), recs)

Records(toks) == Cut(toks, <<>>, <<>>).recs
Unterminated(toks) == Cut(toks, <<>>, <<>>).rest

\* C4: once the first line has decoded, a later line that fails to decode does
\* not trigger the fallback: no rewind, no single-document parse, and the run
\* does not come back to the caller normally (the decode failure propagates).
C4_LaterFailurePropagates ==
    (/\ pc # "loop"
     /\ Len(infile) >= 2
     /\ Decodes(infile[1])
     /\ \E i \in 2..Len(infile) : ~Decodes(infile[i]))
        => (seeks = 0 /\ loads = 0 /\ pc \notin {"done", "returned"})

\* C5: when every line decodes, the output is one record per consumed line, in
\* input order, each the converted value of its line and each ended by exactly
\* one newline; the input is never rewound and nothing is written twice.
C5_OneRecordPerLine ==
    (\A i \in 1..Len(infile) : Decodes(infile[i]))
        => /\ seeks = 0
           /\ loads = 0
           /\ calls = pos
           /\ pc = "done" => pos = Len(infile)
           /\ Unterminated(outfile) = <<>>
           /\ Len(Records(outfile)) = pos
           /\ \A i \in 1..pos :
                 /\ Records(outfile)[i] # <<>>
                 /\ Decodes(Records(outfile)[i])
                 /\ json_loads(Records(outfile)[i]).val
                        = convert_to_bigint(json_loads(infile[i]).val)

C5_Witness ==
    /\ pc = "done"
    /\ infile = <<LineRow1, LineRow2>>
    /\ outfile =
          <<Punct("{"), Lit(Str(K_id)), Punct(":"), Lit(PInt(1)), Punct(","),
            Lit(Str(K_x)), Punct(":"), Lit(Str(<<"a">>)), Punct("}"), NL,
            Punct("{"), Lit(Str(K_id)), Punct(":"), Lit(PInt(2)), Punct(","),
            Lit(Str(K_x)), Punct(":"), Lit(Str(<<"b">>)), Punct("}"), NL>>

\* C6: when the first line fails to decode but the whole input decodes as one
\* value, the input is rewound once, the converter runs once on the whole
\* document, exactly that converted document is written with no trailing
\* newline, and no further line is processed.
C6_SingleDocumentFallback ==
    (/\ Len(infile) >= 1
     /\ ~Decodes(infile[1])
     /\ json_load(infile).ok)
        => IF pc = "loop"
           THEN pos = 0 /\ outfile = <<>> /\ calls = 0 /\ seeks = 0
           ELSE /\ pc = "done"
                /\ ~ENABLED Next
                /\ seeks = 1
                /\ loads = 1
                /\ calls = 1
                /\ stdout = <<>>
                /\ Records(outfile) = <<>>
                /\ Decodes(outfile)
                /\ json_loads(outfile).val = convert_to_bigint(json_load(infile).val)

C6_Witness ==
    /\ pc = "done"
    /\ infile = <<LineOpen, LineMember, LineClose>>
    /\ seeks = 1
    /\ outfile = <<Punct("{"), Lit(Str(K_id)), Punct(":"), Lit(PInt(42)), Punct("}")>>

\* C7: when the first line fails to decode and the whole input fails to decode
\* too, a diagnostic naming the input file is printed, nothing is written to
\* the output, and process_file returns to its caller.
C7_InvalidInputReported ==
    (/\ Len(infile) >= 1
     /\ ~Decodes(infile[1])
     /\ ~json_load(infile).ok
     /\ pc # "loop")
        => /\ pc = "returned"
           /\ outfile = <<>>
           /\ calls = 0
           /\ Len(stdout) = 1
           /\ stdout[1][2] = input_file

C7_Witness ==
    /\ pc = "returned"
    /\ infile = <<LineOpen, LineMember>>
    /\ outfile = <<>>
    /\ stdout = << <<"Error: Invalid JSON format in file ", "data.json">> >>

\* C10: the output is in a single mode: newline-terminated JSONL records only,
\* or one document without a trailing newline; never records followed by a
\* document.
C10_SingleOutputMode ==
    \/ Unterminated(outfile) = <<>>
    \/ Records(outfile) = <<>>

====
